---- MODULE Spec2Model ----
(***************************************************************************)
(* A model of the translating reverse proxy: the JSON rewrite engine       *)
(* (JSONTranslator), the rule cache (TranslationService) with its rule     *)
(* store (MongoDB collection), the administrative endpoints and the        *)
(* forwarding pipeline (ProxyHandler / proxy_request).                     *)
(*                                                                         *)
(* Text (Python str) is a sequence of one-character strings, so that       *)
(* lower(), strip(), split(".") and str() are computed, not assumed.       *)
(* A Python dict is an ordered map: a sequence of [k, v] entries with      *)
(* pairwise different keys, in insertion order.                            *)
(*                                                                         *)
(* Records list their fields in the order in which TLC keeps them (that of *)
(* the names' first occurrence in this module), so that no TLC worker ever *)
(* reorders a record while another one reads it.                           *)
(***************************************************************************)
EXTENDS Integers, Sequences, FiniteSets, TLC

VARIABLES
    store,       \* index into StoreContents: the collection's current documents
    now,         \* datetime.now(UTC), in seconds since process start
    ticks,       \* how many times the clock has advanced (bounds the run)
    cache,       \* TranslationService._cache
    lastLoaded,  \* TranslationService._last_loaded
    last,        \* what the most recent handler did with the rule cache
    px,          \* what the most recent handler did in the forwarding pipeline
    tr           \* the last direct JSONTranslator.translate call

vars == <<store, now, ticks, cache, lastLoaded, last, px, tr>>

----------------------------------------------------------------------------
(* Python str                                                              *)

UpperLetters == <<"A","B","C","D","E","F","G","H","I","J","K","L","M",
                  "N","O","P","Q","R","S","T","U","V","W","X","Y","Z">>

LowerLetters == <<"a","b","c","d","e","f","g","h","i","j","k","l","m",
                  "n","o","p","q","r","s","t","u","v","w","x","y","z">>

Whitespace == {" ", "\t", "\n", "\r"}

LowerChar(c) ==
    IF \E i \in 1..Len(UpperLetters) : UpperLetters[i] = c
    THEN LowerLetters[CHOOSE i \in 1..Len(UpperLetters) : UpperLetters[i] = c]
    ELSE c

\* str.lower()
Lower(s) == [i \in 1..Len(s) |-> LowerChar(s[i])]

RECURSIVE LStrip(_)
LStrip(s) ==
    IF s # <<>> /\ Head(s) \in Whitespace THEN LStrip(Tail(s)) ELSE s

RECURSIVE RStrip(_)
RStrip(s) ==
    IF s # <<>> /\ s[Len(s)] \in Whitespace
    THEN RStrip(SubSeq(s, 1, Len(s) - 1))
    ELSE s

\* str.strip()
Strip(s) == RStrip(LStrip(s))

\* lang.lower().strip()
Normalize(s) == Strip(Lower(s))

\* str.split(sep) for a one-character separator: "a..b" gives <<"a", "", "b">>
\* and "" gives <<"">>.
RECURSIVE SplitFrom(_, _, _)
SplitFrom(s, sep, acc) ==
    IF s = <<>> THEN <<acc>>
    ELSE IF Head(s) = sep THEN <<acc>> \o SplitFrom(Tail(s), sep, <<>>)
    ELSE SplitFrom(Tail(s), sep, Append(acc, Head(s)))

Split(s, sep) == SplitFrom(s, sep, <<>>)

RECURSIVE Join(_, _)
Join(parts, sep) ==
    IF parts = <<>> THEN <<>>
    ELSE IF Len(parts) = 1 THEN parts[1]
    ELSE parts[1] \o sep \o Join(Tail(parts), sep)

Digits == <<"0","1","2","3","4","5","6","7","8","9">>

RECURSIVE NatStr(_)
NatStr(n) ==
    IF n < 10 THEN <<Digits[n + 1]>>
    ELSE NatStr(n \div 10) \o <<Digits[(n % 10) + 1]>>

\* str(int)
IntStr(n) == IF n < 0 THEN <<"-">> \o NatStr(0 - n) ELSE NatStr(n)

----------------------------------------------------------------------------
(* Ordered maps (Python dict)                                              *)

EmptyMap == <<>>

MapKeys(m) == [i \in 1..Len(m) |-> m[i].k]

MapHas(m, key) == \E i \in 1..Len(m) : m[i].k = key

\* dict.get(key, default)
MapGet(m, key, default) ==
    IF MapHas(m, key)
    THEN m[CHOOSE i \in 1..Len(m) : m[i].k = key].v
    ELSE default

\* m[key] = value: an existing key keeps its position
MapSet(m, key, value) ==
    IF MapHas(m, key)
    THEN [i \in 1..Len(m) |-> IF m[i].k = key THEN [k |-> key, v |-> value] ELSE m[i]]
    ELSE Append(m, [k |-> key, v |-> value])

KeySet(m) == {m[i].k : i \in 1..Len(m)}

\* dict.pop(key, None): the map without key
RECURSIVE MapRemove(_, _)
MapRemove(m, key) ==
    IF m = <<>> THEN <<>>
    ELSE IF Head(m).k = key THEN Tail(m)
    ELSE <<Head(m)>> \o MapRemove(Tail(m), key)

----------------------------------------------------------------------------
(* JSON values: a tagged variant                                           *)

\* Every value carries every field, so that any two values can be compared:
\* b is the bool, n the int, s the text, l the list's elements, d the dict's
\* entries; the fields a tag does not use are blank.
JBlank == [s |-> <<>>, n |-> 0, t |-> "null", b |-> FALSE, l |-> <<>>, d |-> <<>>]

JNull == JBlank
JBool(b) == [JBlank EXCEPT !.t = "bool", !.b = b]
JInt(n) == [JBlank EXCEPT !.t = "int", !.n = n]
JStr(s) == [JBlank EXCEPT !.t = "str", !.s = s]
JList(l) == [JBlank EXCEPT !.t = "list", !.l = l]
JDict(m) == [JBlank EXCEPT !.t = "dict", !.d = m]

IsList(x) == x.t = "list"
IsDict(x) == x.t = "dict"

\* repr(str), for text without quotes or escapes
StrRepr(s) == <<"'">> \o s \o <<"'">>

\* str(x) of a JSON value as Python prints it
RECURSIVE PyRepr(_)
PyStr(x) == IF x.t = "str" THEN x.s ELSE PyRepr(x)

PyRepr(x) ==
    CASE x.t = "null" -> <<"N","o","n","e">>
      [] x.t = "bool" -> IF x.b THEN <<"T","r","u","e">> ELSE <<"F","a","l","s","e">>
      [] x.t = "int" -> IntStr(x.n)
      [] x.t = "str" -> StrRepr(x.s)
      [] x.t = "list" ->
            <<"[">> \o Join([i \in 1..Len(x.l) |-> PyRepr(x.l[i])], <<",", " ">>) \o <<"]">>
      [] x.t = "dict" ->
            <<"{">>
            \o Join([i \in 1..Len(x.d) |->
                        StrRepr(x.d[i].k) \o <<":", " ">> \o PyRepr(x.d[i].v)],
                    <<",", " ">>)
            \o <<"}">>

----------------------------------------------------------------------------
(* Objects.  Lists and dicts are objects with an identity: the engine       *)
(* changes them in place, and one object can sit in several places (a       *)
(* rule's replacement put into the tree is the rule's own object, not a     *)
(* copy).  A heap is a sequence of container objects; a slot holds a        *)
(* scalar or a reference to the object at an address.                       *)

JRef(a) == [JBlank EXCEPT !.t = "ref", !.n = a]

IsRef(x) == x.t = "ref"

\* a new object graph for the value x: the heap with it, and the slot for it
RECURSIVE StoreValue(_, _)
RECURSIVE StoreSeq(_, _)
StoreValue(h, x) ==
    IF IsList(x)
    THEN LET r == StoreSeq(h, x.l)
         IN  [h |-> Append(r.h, JList(r.slots)), slot |-> JRef(Len(r.h) + 1)]
    ELSE IF IsDict(x)
    THEN LET r == StoreSeq(h, [i \in 1..Len(x.d) |-> x.d[i].v])
         IN  [h |-> Append(r.h, JDict([i \in 1..Len(x.d) |->
                                         [k |-> x.d[i].k, v |-> r.slots[i]]])),
              slot |-> JRef(Len(r.h) + 1)]
    ELSE [h |-> h, slot |-> x]

StoreSeq(h, xs) ==
    IF xs = <<>> THEN [h |-> h, slots |-> <<>>]
    ELSE LET first == StoreValue(h, Head(xs))
             rest == StoreSeq(first.h, Tail(xs))
         IN  [h |-> rest.h, slots |-> <<first.slot>> \o rest.slots]

\* the value of what a slot holds
RECURSIVE Load(_, _)
Load(h, slot) ==
    IF ~IsRef(slot) THEN slot
    ELSE IF IsList(h[slot.n])
    THEN JList([i \in 1..Len(h[slot.n].l) |-> Load(h, h[slot.n].l[i])])
    ELSE JDict([i \in 1..Len(h[slot.n].d) |->
                  [k |-> h[slot.n].d[i].k, v |-> Load(h, h[slot.n].d[i].v)]])

\* isinstance(x, list) and isinstance(x, dict) of what a slot holds
HoldsList(h, slot) == IsRef(slot) /\ IsList(h[slot.n])
HoldsDict(h, slot) == IsRef(slot) /\ IsDict(h[slot.n])

\* node[key] = value, for the i-th key of the dict at address a
SetValue(h, a, i, slot) ==
    [h EXCEPT ![a] = JDict([h[a].d EXCEPT ![i] = [k |-> h[a].d[i].k, v |-> slot]])]

\* the position of key in the dict at address a
KeyIndex(h, a, key) == CHOOSE i \in 1..Len(h[a].d) : h[a].d[i].k = key

----------------------------------------------------------------------------
(* JSONTranslator: the rewrite engine.  Each operator takes the heap and   *)
(* yields the heap as the code leaves it.                                  *)

Star == <<"*">>

\* _replace_value without the "*" entry as the default
ReplaceValueNoDefault(h, original, replace) ==
    IF HoldsDict(h, replace)
    THEN MapGet(h[replace.n].d, PyStr(Load(h, original)), original)
    ELSE replace

\* _replace_value: the slot to put in place of original
ReplaceValue(h, original, replace) ==
    IF HoldsDict(h, replace)
    THEN MapGet(h[replace.n].d, PyStr(Load(h, original)),
                MapGet(h[replace.n].d, Star, original))
    ELSE replace

RECURSIVE ApplyRule(_, _, _, _)

\* "for item in node: self._apply_rule(item, segments, replace)" from the
\* i-th item on
RECURSIVE ForEachItem(_, _, _, _, _)
ForEachItem(h, a, i, segments, replace) ==
    IF i > Len(h[a].l) THEN h
    ELSE ForEachItem(ApplyRule(h, h[a].l[i], segments, replace), a, i + 1, segments, replace)

\* _apply_rule_to_list when a key segment is used up at the list
ApplyRuleToListConsumes(h, a, current, remaining, segments, replace) ==
    ForEachItem(h, a, 1, remaining, replace)

\* _apply_rule_to_list: the loop variable item is a local, so the list's own
\* slots are never assigned; only objects reached through it change.
ApplyRuleToList(h, a, current, remaining, segments, replace) ==
    IF current = Star
    THEN ForEachItem(h, a, 1, remaining, replace)
    ELSE ForEachItem(h, a, 1, segments, replace)

\* "if remaining: self._apply_rule(node[key], remaining, replace)
\*  else: node[key] = self._replace_value(node[key], replace)"
\* for the i-th key of the dict at a
ApplyAtKey(h, a, i, remaining, replace) ==
    IF remaining # <<>>
    THEN ApplyRule(h, h[a].d[i].v, remaining, replace)
    ELSE SetValue(h, a, i, ReplaceValue(h, h[a].d[i].v, replace))

\* _apply_wildcard_to_dict: "for key in node" from the i-th key on
RECURSIVE ApplyWildcardToDict(_, _, _, _, _)
ApplyWildcardToDict(h, a, i, remaining, replace) ==
    IF i > Len(h[a].d) THEN h
    ELSE ApplyWildcardToDict(ApplyAtKey(h, a, i, remaining, replace), a, i + 1,
                             remaining, replace)

\* _apply_specific_key (called only when key is in node)
ApplySpecificKey(h, a, key, remaining, replace) ==
    ApplyAtKey(h, a, KeyIndex(h, a, key), remaining, replace)

\* _apply_rule_to_dict
ApplyRuleToDict(h, a, current, remaining, replace) ==
    IF current = Star THEN ApplyWildcardToDict(h, a, 1, remaining, replace)
    ELSE IF MapHas(h[a].d, current) THEN ApplySpecificKey(h, a, current, remaining, replace)
    ELSE h

\* _apply_rule: with no segments left it returns at once
ApplyRule(h, node, segments, replace) ==
    IF segments = <<>> THEN h
    ELSE LET current == Head(segments)
             remaining == Tail(segments)
         IN  IF HoldsList(h, node)
             THEN ApplyRuleToList(h, node.n, current, remaining, segments, replace)
             ELSE IF HoldsDict(h, node)
             THEN ApplyRuleToDict(h, node.n, current, remaining, replace)
             ELSE h

\* _apply_rules: rules is a sequence of [path, replace], replace a slot; a
\* rule with an empty path is skipped.
RECURSIVE ApplyRules(_, _, _)
ApplyRules(h, rules, node) ==
    IF rules = <<>> THEN h
    ELSE LET rule == Head(rules)
         IN  ApplyRules(IF rule.path = <<>> THEN h
                        ELSE ApplyRule(h, node, Split(rule.path, "."), rule.replace),
                        Tail(rules), node)

\* copy.deepcopy: a new object graph with the same content
DeepCopy(h, slot) == StoreValue(h, Load(h, slot))

\* The objects a call of translate works with: the replacement objects of
\* the rules (the translator's, and its creator's), then the caller's data.
RulesStored(rules) == StoreSeq(<<>>, [i \in 1..Len(rules) |-> rules[i].replace])

RuleSlots(rules) ==
    [i \in 1..Len(rules) |-> [replace |-> RulesStored(rules).slots[i], path |-> rules[i].path]]

DataStored(rules, data) == StoreValue(RulesStored(rules).h, data)

\* what the caller sees when translate has worked on the object at root and
\* left the heap h: the returned value, the content of the caller's data
\* object and of the rules' replacement objects
Outcome(h, rules, data, root, aliased) ==
    [rules |-> [i \in 1..Len(rules) |->
                  [replace |-> Load(h, RulesStored(rules).slots[i]),
                   path |-> rules[i].path]],
     data |-> Load(h, DataStored(rules, data).slot),
     aliased |-> aliased,
     result |-> Load(h, root)]

\* translate without the copy: _apply_rules works on the caller's object
TranslateInPlace(rules, data) ==
    LET start == DataStored(rules, data)
    IN  IF rules = <<>> \/ ~(IsDict(data) \/ IsList(data))
        THEN Outcome(start.h, rules, data, start.slot, TRUE)
        ELSE Outcome(ApplyRules(start.h, RuleSlots(rules), start.slot),
                     rules, data, start.slot, TRUE)

\* translate: result is the returned value, data the content of the caller's
\* object when the call returns, aliased tells whether the returned value is
\* the caller's object itself, rules the rules with the content of their
\* replacement objects when the call returns.
Translate(rules, data) ==
    LET start == DataStored(rules, data)
        copy == DeepCopy(start.h, start.slot)
    IN  IF rules = <<>> \/ ~(IsDict(data) \/ IsList(data))
        THEN Outcome(start.h, rules, data, start.slot, TRUE)
        ELSE Outcome(ApplyRules(copy.h, RuleSlots(rules), copy.slot),
                     rules, data, copy.slot, FALSE)

----------------------------------------------------------------------------
(* Text and JSON values used as inputs                                     *)

t_en == <<"e","n">>
t_EN == <<"E","N">>
t_en_sp == <<" ","e","n"," ">>
t_fr == <<"f","r">>
t_de == <<"d","e">>
t_items == <<"i","t","e","m","s">>
t_name == <<"n","a","m","e">>
t_status == <<"s","t","a","t","u","s">>
t_open == <<"o","p","e","n">>
t_OPEN == <<"O","P","E","N">>
t_weird == <<"w","e","i","r","d">>
t_UNKNOWN == <<"U","N","K","N","O","W","N">>
t_a == <<"a">>
t_b == <<"b">>
t_x == <<"x">>
t_y == <<"y">>
t_X == <<"X">>

\* "items.*", "items.name", "a.*", "a.x"
p_items_star == t_items \o <<".">> \o Star
p_items_name == t_items \o <<".">> \o t_name
p_a_star == t_a \o <<".">> \o Star
p_a_x == t_a \o <<".">> \o t_x
p_status_x == t_status \o <<".">> \o t_x

Entry(key, value) == [k |-> key, v |-> value]

\* {"open": "OPEN", "*": "UNKNOWN"}
StatusMapping == JDict(<<Entry(t_open, JStr(t_OPEN)), Entry(Star, JStr(t_UNKNOWN))>>)

\* {"1": 2, "0": 7}
DigitMapping == JDict(<<Entry(<<"1">>, JInt(2)), Entry(<<"0">>, JInt(7))>>)

\* {"*": {"x": 1}}: whatever the value, an object takes its place
ObjectMapping == JDict(<<Entry(Star, JDict(<<Entry(t_x, JInt(1))>>))>>)

Rule(path, replace) == [replace |-> replace, path |-> path]

Rules ==
    { Rule(p_items_star, JStr(t_X)),
      Rule(p_items_name, JStr(t_X)),
      Rule(p_a_star, JInt(0)),
      Rule(p_a_x, DigitMapping),
      Rule(t_status, StatusMapping),
      Rule(t_status, ObjectMapping),
      Rule(p_status_x, JInt(2)),
      Rule(Star, DigitMapping),
      Rule(t_x, JStr(t_X)),
      Rule(<<>>, JStr(t_X)) }

Values ==
    { JDict(<<Entry(t_items, JList(<<JInt(1), JInt(2)>>))>>),
      JDict(<<Entry(t_items, JList(<<JDict(<<Entry(t_name, JStr(t_a))>>),
                                     JDict(<<Entry(t_name, JStr(t_b))>>)>>))>>),
      JDict(<<Entry(t_items, JList(<<JList(<<JDict(<<Entry(t_name, JStr(t_a))>>)>>),
                                     JInt(1)>>))>>),
      JDict(<<Entry(t_a, JDict(<<Entry(t_x, JInt(1)), Entry(t_y, JInt(2))>>))>>),
      JDict(<<Entry(t_status, JStr(t_open)), Entry(t_x, JInt(1))>>),
      JDict(<<Entry(t_status, JStr(t_weird))>>),
      JList(<<JDict(<<Entry(t_x, JInt(1))>>), JInt(1)>>),
      JDict(EmptyMap),
      JList(<<>>),
      JStr(t_open),
      JInt(1),
      JBool(TRUE),
      JNull }

\* the longest rule list handed to a translator in the direct calls
MaxRules == 2

RECURSIVE SeqsUpTo(_, _)
SeqsUpTo(S, n) ==
    IF n = 0 THEN {<<>>}
    ELSE LET shorter == SeqsUpTo(S, n - 1)
         IN  shorter \cup {Append(q, e) : q \in shorter, e \in S}

RuleLists == SeqsUpTo(Rules, MaxRules)

----------------------------------------------------------------------------
(* The rule store: the documents of the MongoDB collection.  A languageId  *)
(* of <<>> stands for a missing, None or empty languageId (all falsy);     *)
(* translations is the ordered map the cache keeps (missing, None and {}   *)
(* all become {}).                                                         *)

Doc(languageId, translations) == [languageId |-> languageId, translations |-> translations]

RulesEn == <<Entry(t_status, StatusMapping)>>
RulesFr == <<Entry(p_a_star, JInt(0)), Entry(p_a_x, DigitMapping)>>
RulesUpper == <<Entry(p_items_name, JStr(t_X))>>
RulesEn2 == <<Entry(t_status, JStr(t_X))>>
RulesDe == <<Entry(t_status, ObjectMapping), Entry(p_status_x, JInt(2))>>

StoreContents ==
    << <<>>,
       <<Doc(t_en, RulesEn), Doc(t_fr, RulesFr)>>,
       <<Doc(t_EN, RulesUpper), Doc(<<>>, RulesFr), Doc(t_en, RulesEn2)>>,
       <<Doc(t_fr, RulesFr), Doc(t_de, RulesDe), Doc(t_fr, EmptyMap)>> >>

StoreIds == 1..Len(StoreContents)

\* the language strings callers ask the cache for
Codes == {t_en, t_EN, t_en_sp, t_fr, t_de}

\* A fetch either returns every document (ok) or raises after the cursor
\* has yielded seen documents (seen = 0: the connection or the query fails).
FetchOutcomes(docs) ==
    {[ok |-> TRUE, seen |-> Len(docs)]}
    \cup {[ok |-> FALSE, seen |-> n] : n \in 0..Len(docs)}

\* the outcome of every fetch a call makes: none is drawn for a call that
\* does not fetch (fetched = 0 whatever the outcome would be)
AllRead(docs) == [ok |-> TRUE, seen |-> Len(docs)]

FetchesOf(docs, fetched) ==
    IF fetched = 1 THEN FetchOutcomes(docs) ELSE {AllRead(docs)}

----------------------------------------------------------------------------
(* TranslationService: the rule cache                                      *)

\* settings.cache_ttl_seconds
cache_ttl_seconds == 300

\* datetime.min, the value of _last_loaded before any successful load; it is
\* a naive datetime, so subtracting it from datetime.now(UTC) raises TypeError
DatetimeMin == -1

\* the for-loop of _load_translations over the first n documents, starting
\* from the mapping languages
RECURSIVE LoadLoop(_, _, _)
LoadLoop(languages, docs, n) ==
    IF n = 0 THEN languages
    ELSE LET sofar == LoadLoop(languages, docs, n - 1)
             doc == docs[n]
         IN  IF doc.languageId # <<>>
             THEN MapSet(sofar, doc.languageId, doc.translations)
             ELSE sofar

\* _load_translations when the except branch empties the cache
LoadClearsOnFailure(c, ll, docs, fetch, t) ==
    IF fetch.ok
    THEN [cache |-> LoadLoop(EmptyMap, docs, Len(docs)), lastLoaded |-> t]
    ELSE [cache |-> EmptyMap, lastLoaded |-> ll]

\* _load_translations when _last_loaded is not set
LoadKeepsTimestamp(c, ll, docs, fetch, t) ==
    IF fetch.ok
    THEN [cache |-> LoadLoop(EmptyMap, docs, Len(docs)), lastLoaded |-> ll]
    ELSE [cache |-> c, lastLoaded |-> ll]

\* _load_translations when the documents read before a failure are kept
LoadKeepsPartial(c, ll, docs, fetch, t) ==
    IF fetch.ok
    THEN [cache |-> LoadLoop(EmptyMap, docs, Len(docs)), lastLoaded |-> t]
    ELSE [cache |-> LoadLoop(c, docs, fetch.seen), lastLoaded |-> ll]

\* _load_translations: languages is a local, assigned to _cache only after
\* the whole cursor was read; any exception is caught and logged.
LoadTranslations(c, ll, docs, fetch, t) ==
    IF fetch.ok
    THEN [cache |-> LoadLoop(EmptyMap, docs, Len(docs)), lastLoaded |-> t]
    ELSE [cache |-> c, lastLoaded |-> ll]

\* _should_refresh: raised tells that the subtraction raised TypeError
ShouldRefresh(t, ll) ==
    [value |-> ll # DatetimeMin /\ t - ll > cache_ttl_seconds,
     raised |-> ll = DatetimeMin]

\* "if not self._cache or self._should_refresh(): self._load_translations()"
\* as get_translations and get_available_languages both start
RefreshIfNeeded(c, ll, docs, fetch, t) ==
    LET sr == ShouldRefresh(t, ll)
        loaded == LoadTranslations(c, ll, docs, fetch, t)
    IN  IF c = EmptyMap
        THEN [cache |-> loaded.cache, lastLoaded |-> loaded.lastLoaded,
              fetched |-> 1, raised |-> FALSE]
        ELSE IF sr.raised
        THEN [cache |-> c, lastLoaded |-> ll, fetched |-> 0, raised |-> TRUE]
        ELSE IF sr.value
        THEN [cache |-> loaded.cache, lastLoaded |-> loaded.lastLoaded,
              fetched |-> 1, raised |-> FALSE]
        ELSE [cache |-> c, lastLoaded |-> ll, fetched |-> 0, raised |-> FALSE]

\* get_translations: rules is the returned rule set
GetTranslations(c, ll, docs, fetch, t, language) ==
    LET r == RefreshIfNeeded(c, ll, docs, fetch, t)
    IN  [cache |-> r.cache,
         lastLoaded |-> r.lastLoaded,
         rules |-> IF r.raised THEN EmptyMap ELSE MapGet(r.cache, language, EmptyMap),
         fetched |-> r.fetched,
         raised |-> r.raised]

\* get_available_languages
GetAvailableLanguages(c, ll, docs, fetch, t) ==
    LET r == RefreshIfNeeded(c, ll, docs, fetch, t)
    IN  [cache |-> r.cache,
         lastLoaded |-> r.lastLoaded,
         fetched |-> r.fetched,
         languages |-> IF r.raised THEN <<>> ELSE MapKeys(r.cache),
         raised |-> r.raised]

\* reload: _load_translations catches every exception, so reload returns
\* its "success" dict whatever the fetch did
Reload(c, ll, docs, fetch, t) ==
    LET loaded == LoadTranslations(c, ll, docs, fetch, t)
    IN  [cache |-> loaded.cache,
         lastLoaded |-> loaded.lastLoaded,
         fetched |-> 1,
         languages |-> MapKeys(loaded.cache),
         raised |-> FALSE,
         status |-> "success",
         languages_loaded |-> Len(loaded.cache)]

----------------------------------------------------------------------------
(* Configuration and request schema                                        *)

\* the fields class Settings declares; extra environment entries are ignored,
\* so reading any other attribute of settings raises AttributeError
SettingsFields ==
    {"mongo_uri", "mongo_db", "mongo_collection", "mongo_timeout_ms",
     "cache_ttl_seconds", "default_proxy_url", "default_timeout", "max_timeout",
     "verify_ssl", "app_host", "app_port", "app_reload", "log_level"}

\* the fields class ProxyRequest declares (url is commented out)
ProxyRequestFields ==
    {"method", "headers", "params", "payload", "cookies", "timeout", "verify_ssl"}

\* settings.login_token: the attribute lookup
LoginToken ==
    [value |-> <<>>, raised |-> "login_token" \notin SettingsFields]

----------------------------------------------------------------------------
(* ProxyHandler: the forwarding pipeline                                   *)

t_Authorization == <<"A","u","t","h","o","r","i","z","a","t","i","o","n">>
t_login_token == <<"l","o","g","i","n","-","t","o","k","e","n">>
t_schema == <<"s","c","h","e","m","a">>
t_application_json == <<"a","p","p","l","i","c","a","t","i","o","n","/","j","s","o","n">>

\* bool(x) of a JSON value
Truthy(x) ==
    CASE x.t = "null" -> FALSE
      [] x.t = "bool" -> x.b
      [] x.t = "int" -> x.n # 0
      [] x.t = "str" -> x.s # <<>>
      [] x.t = "list" -> x.l # <<>>
      [] x.t = "dict" -> x.d # <<>>

\* needle in hay, for text
IsSubstring(needle, hay) ==
    \E i \in 0..(Len(hay) - Len(needle)) : SubSeq(hay, i + 1, i + Len(needle)) = needle

\* json.dumps(x, separators=(',', ':')), for text without quotes or escapes
RECURSIVE JsonDumps(_)
JsonDumps(x) ==
    CASE x.t = "null" -> <<"n","u","l","l">>
      [] x.t = "bool" -> IF x.b THEN <<"t","r","u","e">> ELSE <<"f","a","l","s","e">>
      [] x.t = "int" -> IntStr(x.n)
      [] x.t = "str" -> <<"\"">> \o x.s \o <<"\"">>
      [] x.t = "list" ->
            <<"[">> \o Join([i \in 1..Len(x.l) |-> JsonDumps(x.l[i])], <<",">>) \o <<"]">>
      [] x.t = "dict" ->
            <<"{">>
            \o Join([i \in 1..Len(x.d) |->
                        <<"\"">> \o x.d[i].k \o <<"\"">> \o <<":">> \o JsonDumps(x.d[i].v)],
                    <<",">>)
            \o <<"}">>

\* inject_auth_token: headers is None (JNull) or a dict of text
InjectAuthToken(headers) ==
    LET h == IF headers.t = "null" THEN JDict(EmptyMap) ELSE headers
    IN  IF LoginToken.raised
        THEN [raised |-> TRUE, headers |-> h]
        ELSE IF LoginToken.value # <<>> /\ ~MapHas(h.d, t_Authorization)
        THEN [raised |-> FALSE,
              headers |-> JDict(MapSet(h.d, t_login_token, JStr(LoginToken.value)))]
        ELSE [raised |-> FALSE, headers |-> h]

\* build_url_with_params
BuildUrlWithParams(url, params, payload) ==
    LET schema_value ==
            IF Truthy(params) /\ IsDict(params) /\ MapHas(params.d, t_schema)
            THEN MapGet(params.d, t_schema, JNull)
            ELSE IF Truthy(payload) /\ IsDict(payload) /\ MapHas(payload.d, t_schema)
            THEN MapGet(payload.d, t_schema, JNull)
            ELSE JNull
        schema_part ==
            IF Truthy(schema_value)
            THEN << t_schema \o <<"=">> \o PyStr(schema_value) >>
            ELSE <<>>
        params_part ==
            IF Truthy(params) /\ IsDict(params)
            THEN << <<"p","a","r","a","m","s","=">> \o JsonDumps(params) >>
            ELSE <<>>
        query_parts == schema_part \o params_part
        separator == IF IsSubstring(<<"?">>, url) THEN <<"&">> ELSE <<"?">>
    IN  IF query_parts # <<>>
        THEN url \o separator \o Join(query_parts, <<"&">>)
        ELSE url

\* What the upstream does with a request: answers with a status, or the
\* request times out, or the connection fails.
Upstreams ==
    {[status |-> st, kind |-> "response"] : st \in {200, 404, 500}}
    \cup {[status |-> 0, kind |-> "timeout"], [status |-> 0, kind |-> "connect"]}

\* make_request: ended is "response" (the upstream response is returned),
\* "http" (HTTPException with status) or "raise" (another exception leaves
\* the function); dispatched counts the calls of client.request.
MakeRequest(method, url, headers, cookies, params, payload, verify_ssl, upstream) ==
    LET injected == InjectAuthToken(headers)
        built == BuildUrlWithParams(url, params, payload)
        body == IF payload.t # "null" /\ method \notin {"GET", "HEAD", "OPTIONS"}
                THEN payload ELSE JNull
        kwargs == [headers |-> IF Truthy(injected.headers) THEN injected.headers ELSE JNull,
                   url |-> built,
                   method |-> method,
                   cookies |-> IF Truthy(cookies) THEN cookies ELSE JNull,
                   json |-> body]
        unsent == [headers |-> JNull,
                   url |-> url,
                   method |-> method,
                   cookies |-> JNull,
                   json |-> JNull]
    IN  IF injected.raised
        THEN [status |-> 0,
              kwargs |-> unsent,
              ended |-> "raise",
              exception |-> "AttributeError",
              dispatched |-> 0]
        ELSE IF upstream.kind = "response" /\ upstream.status < 400
        THEN [status |-> upstream.status,
              kwargs |-> kwargs,
              ended |-> "response",
              exception |-> "",
              dispatched |-> 1]
        ELSE IF upstream.kind = "response"
        THEN [status |-> upstream.status,
              kwargs |-> kwargs,
              ended |-> "http",
              exception |-> "HTTPStatusError",
              dispatched |-> 1]
        ELSE [status |-> 502,
              kwargs |-> kwargs,
              ended |-> "http",
              exception |-> "RequestError",
              dispatched |-> 1]

\* [{"path": path, "replace": value} for path, value in rules.items()]
RulesOf(ruleset) == [i \in 1..Len(ruleset) |-> Rule(ruleset[i].k, ruleset[i].v)]

\* no language: None or "" (both falsy)
NoLanguage == <<>>

\* process_response taking a language without rules for a failure
ProcessResponseNeedsRules(c, ll, docs, fetch, t, response, language) ==
    LET untouched == [cache |-> c,
                      lastLoaded |-> ll,
                      rules |-> EmptyMap,
                      fetched |-> 0,
                      raised |-> FALSE]
        got == GetTranslations(c, ll, docs, fetch, t, language)
        answer(kind, status, text, value, consulted, translated, g) ==
            [value |-> value,
             status |-> status,
             kind |-> kind,
             text |-> text,
             consulted |-> consulted,
             translated |-> translated,
             get |-> g]
    IN  IF ~IsSubstring(t_application_json, response.content_type)
        THEN answer("text", 0, response.text, JNull, FALSE, FALSE, untouched)
        ELSE IF ~response.valid
        THEN answer("error", 500, <<>>, JNull, FALSE, FALSE, untouched)
        ELSE IF language = NoLanguage
        THEN answer("json", 0, <<>>, response.value, FALSE, FALSE, untouched)
        ELSE IF got.raised \/ got.rules = EmptyMap
        THEN answer("error", 500, <<>>, JNull, TRUE, FALSE, got)
        ELSE answer("json", 0, <<>>, Translate(RulesOf(got.rules), response.value).result,
                    TRUE, TRUE, got)

\* process_response: kind is "text" (the raw body), "json" (the parsed,
\* possibly rewritten value) or "error" (HTTPException 500); consulted tells
\* whether get_translations was called, translated whether the translator ran.
ProcessResponse(c, ll, docs, fetch, t, response, language) ==
    LET untouched == [cache |-> c,
                      lastLoaded |-> ll,
                      rules |-> EmptyMap,
                      fetched |-> 0,
                      raised |-> FALSE]
        got == GetTranslations(c, ll, docs, fetch, t, language)
        translation == Translate(RulesOf(got.rules), response.value)
        \* the rule set handed out is the cache's own dict and its values
        \* the cache's own objects: what translate did to them is in the cache
        \* (kept by content: an object a call left shared by two cached rules
        \* would be kept as two equal ones; no rule set of StoreContents makes
        \* a call share one)
        left == [got EXCEPT !.cache =
                    MapSet(got.cache, language,
                           [i \in 1..Len(translation.rules) |->
                              Entry(translation.rules[i].path, translation.rules[i].replace)])]
        answer(kind, status, text, value, consulted, translated, g) ==
            [value |-> value,
             status |-> status,
             kind |-> kind,
             text |-> text,
             consulted |-> consulted,
             translated |-> translated,
             get |-> g]
    IN  IF ~IsSubstring(t_application_json, response.content_type)
        THEN answer("text", 0, response.text, JNull, FALSE, FALSE, untouched)
        ELSE IF ~response.valid
        THEN answer("error", 500, <<>>, JNull, FALSE, FALSE, untouched)
        ELSE IF language = NoLanguage
        THEN answer("json", 0, <<>>, response.value, FALSE, FALSE, untouched)
        ELSE IF got.raised
        THEN answer("error", 500, <<>>, JNull, TRUE, FALSE, got)
        ELSE IF got.rules # EmptyMap
        THEN answer("json", 0, <<>>, translation.result, TRUE, TRUE, left)
        ELSE answer("json", 0, <<>>, response.value, TRUE, FALSE, got)

\* the keys a language is looked for under, in this order
LanguageKeys == <<<<"l","a","n","g","u","a","g","e">>, <<"l","a","n","g">>, <<"l","o","c","a","l","e">>, <<"l","a","n","g","u","a","g","e","I","d">>>>

\* d.get(k1) or d.get(k2) or ...: the first truthy value, else the last value
RECURSIVE OrChain(_, _)
OrChain(m, keys) ==
    LET first == MapGet(m, Head(keys), JNull)
    IN  IF Len(keys) = 1 \/ Truthy(first) THEN first ELSE OrChain(m, Tail(keys))

\* the language found in one source (params or payload)
LanguageIn(source) ==
    IF Truthy(source) /\ IsDict(source) /\ OrChain(source.d, LanguageKeys).t = "str"
    THEN [language |-> Normalize(OrChain(source.d, LanguageKeys).s), found |-> TRUE]
    ELSE [language |-> <<>>, found |-> FALSE]

\* ProxyHandler.extract_language(params, payload): found = FALSE is None
ExtractLanguage(params, payload) ==
    IF LanguageIn(params).found THEN LanguageIn(params) ELSE LanguageIn(payload)

\* proxy_service.extract_language(payload)
ServiceExtractLanguage(payload) == LanguageIn(payload)

\* process_payload_params: the payload with "schema" and "params" popped
\* (the caller's payload object itself is changed)
CleanedPayload(payload) ==
    IF Truthy(payload) /\ IsDict(payload)
    THEN JDict(MapRemove(MapRemove(payload.d, t_schema), <<"p","a","r","a","m","s">>))
    ELSE payload

\* proxy_request (POST /proxy): after the payload is cleaned and the language
\* extracted, line 90 reads req.url, which ProxyRequest does not declare, so
\* the handler leaves with AttributeError before anything is dispatched; with
\* a url it would dispatch and map TimeoutException to 504, other
\* RequestErrors to 502.
ProxyRequest(method, payload, upstream) ==
    LET cleaned == CleanedPayload(payload)
        found == ServiceExtractLanguage(cleaned)
    IN  IF "url" \notin ProxyRequestFields
        THEN [language |-> found,
              status |-> 0,
              payload |-> cleaned,
              ended |-> "raise",
              exception |-> "AttributeError",
              dispatched |-> 0]
        ELSE IF upstream.kind = "response" /\ upstream.status < 400
        THEN [language |-> found,
              status |-> upstream.status,
              payload |-> cleaned,
              ended |-> "response",
              exception |-> "",
              dispatched |-> 1]
        ELSE IF upstream.kind = "response"
        THEN [language |-> found,
              status |-> upstream.status,
              payload |-> cleaned,
              ended |-> "http",
              exception |-> "HTTPStatusError",
              dispatched |-> 1]
        ELSE IF upstream.kind = "timeout"
        THEN [language |-> found,
              status |-> 504,
              payload |-> cleaned,
              ended |-> "http",
              exception |-> "TimeoutException",
              dispatched |-> 1]
        ELSE [language |-> found,
              status |-> 502,
              payload |-> cleaned,
              ended |-> "http",
              exception |-> "RequestError",
              dispatched |-> 1]

----------------------------------------------------------------------------
(* The administrative endpoints (core/handlers/handler.py)                 *)

\* POST /reload-translations: status is "error" only if reload() raises
ReloadTranslationsEndpoint(c, ll, docs, fetch, t) ==
    LET result == Reload(c, ll, docs, fetch, t)
    IN  [cache |-> result.cache,
         lastLoaded |-> result.lastLoaded,
         fetched |-> result.fetched,
         languages |-> result.languages,
         raised |-> result.raised,
         status |-> IF result.raised THEN "error" ELSE "success",
         languages_loaded |-> IF result.raised THEN 0 ELSE result.languages_loaded]

\* GET /languages
GetAvailableLanguagesEndpoint(c, ll, docs, fetch, t) ==
    LET result == GetAvailableLanguages(c, ll, docs, fetch, t)
    IN  [cache |-> result.cache,
         lastLoaded |-> result.lastLoaded,
         fetched |-> result.fetched,
         languages |-> result.languages,
         raised |-> result.raised,
         status |-> IF result.raised THEN "error" ELSE "success",
         count |-> Len(result.languages)]

----------------------------------------------------------------------------
(* State                                                                   *)

\* how often the clock advances in a run
MaxTicks == 2

\* the clock advances by a second or by a whole TTL
TickSteps == {1, cache_ttl_seconds}

\* last and px describe the handler that has just run, if the last step was
\* one: last its call into the rule cache, px what the forwarding pipeline
\* did.
\* the record of a call into the rule cache
Called(op, arg, fetchOk, r, rules, languages, status, count) ==
    [rules |-> rules,
     fetched |-> r.fetched,
     languages |-> languages,
     raised |-> r.raised,
     status |-> status,
     count |-> count,
     op |-> op,
     arg |-> arg,
     fetchOk |-> (r.fetched = 1 /\ fetchOk),
     at |-> now,
     storeAt |-> store,
     before |-> cache,
     lastBefore |-> lastLoaded]

NoCall ==
    [rules |-> EmptyMap,
     fetched |-> 0,
     languages |-> <<>>,
     raised |-> FALSE,
     status |-> "",
     count |-> 0,
     op |-> "none",
     arg |-> <<>>,
     fetchOk |-> FALSE,
     at |-> 0,
     storeAt |-> 1,
     before |-> EmptyMap,
     lastBefore |-> DatetimeMin]

NoProxyCall == [op |-> "none"]

NoTranslate == [called |-> FALSE]

\* TranslationService.__init__ (run once, at import): an empty cache, then
\* one _load_translations
Init ==
    /\ store \in StoreIds
    /\ now = 0
    /\ ticks = 0
    /\ \E fetch \in FetchOutcomes(StoreContents[store]) :
          LET loaded == LoadTranslations(EmptyMap, DatetimeMin, StoreContents[store], fetch, 0)
          IN  /\ cache = loaded.cache
              /\ lastLoaded = loaded.lastLoaded
    /\ last = NoCall
    /\ px = NoProxyCall
    /\ tr = NoTranslate

\* time passes
Tick ==
    /\ ticks < MaxTicks
    /\ \E d \in TickSteps : now' = now + d
    /\ ticks' = ticks + 1
    /\ last' = NoCall
    /\ px' = NoProxyCall
    /\ UNCHANGED <<store, cache, lastLoaded, tr>>

\* somebody edits the collection
StoreChange ==
    /\ \E i \in StoreIds \ {store} : store' = i
    /\ last' = NoCall
    /\ px' = NoProxyCall
    /\ UNCHANGED <<now, ticks, cache, lastLoaded, tr>>

\* translation_service.get_translations(language)
GetTranslationsCall ==
    \E language \in Codes :
    \E fetch \in FetchesOf(StoreContents[store],
                           GetTranslations(cache, lastLoaded, StoreContents[store],
                                           AllRead(StoreContents[store]), now, language).fetched) :
        \E r \in {GetTranslations(cache, lastLoaded, StoreContents[store], fetch, now, language)} :
            /\ cache' = r.cache
            /\ lastLoaded' = r.lastLoaded
            /\ last' = Called("get", language, fetch.ok, r, r.rules, <<>>, "", 0)
            /\ px' = NoProxyCall
            /\ UNCHANGED <<store, now, ticks, tr>>

\* GET /v1/languages
LanguagesRequest ==
    \E fetch \in FetchesOf(StoreContents[store],
                           GetAvailableLanguagesEndpoint(cache, lastLoaded, StoreContents[store],
                                                         AllRead(StoreContents[store]), now).fetched) :
        \E r \in {GetAvailableLanguagesEndpoint(cache, lastLoaded, StoreContents[store], fetch, now)} :
            /\ cache' = r.cache
            /\ lastLoaded' = r.lastLoaded
            /\ last' = Called("list", <<>>, fetch.ok, r, EmptyMap, r.languages, r.status, r.count)
            /\ px' = NoProxyCall
            /\ UNCHANGED <<store, now, ticks, tr>>

\* POST /v1/reload-translations
ReloadRequest ==
    \E fetch \in FetchOutcomes(StoreContents[store]) :
        \E r \in {ReloadTranslationsEndpoint(cache, lastLoaded, StoreContents[store], fetch, now)} :
            /\ cache' = r.cache
            /\ lastLoaded' = r.lastLoaded
            /\ last' = Called("reload", <<>>, fetch.ok, r, EmptyMap, r.languages, r.status, r.languages_loaded)
            /\ px' = NoProxyCall
            /\ UNCHANGED <<store, now, ticks, tr>>

Next ==
    \/ Tick
    \/ StoreChange
    \/ GetTranslationsCall
    \/ LanguagesRequest
    \/ ReloadRequest

Spec == Init /\ [][Next]_vars

----------------------------------------------------------------------------
(* The forwarding pipeline's entry points                                  *)

t_text_plain == <<"t","e","x","t","/","p","l","a","i","n">>
t_json_charset == <<"a","p","p","l","i","c","a","t","i","o","n","/","j","s","o","n",";"," ","c","h","a","r","s","e","t","=","u","t","f","-","8">>
t_u == <<"h","t","t","p",":","/","/","x","/","y">>
t_u_q == <<"h","t","t","p",":","/","/","x","/","y","?","q","=","1">>
t_tok == <<"B","e","a","r","e","r"," ","t">>
t_s1 == <<"s","1">>

Response(content_type, text, valid, value) ==
    [value |-> value, text |-> text, content_type |-> content_type, valid |-> valid]

BodyStatus == JDict(<<Entry(t_status, JStr(t_open)), Entry(t_x, JInt(1))>>)
BodyA == JDict(<<Entry(t_a, JDict(<<Entry(t_x, JInt(1)), Entry(t_y, JInt(2))>>))>>)

\* upstream responses: the content-type header ("" when absent), the body
\* text, and what response.json() makes of it (valid = FALSE: ValueError)
Responses ==
    { Response(t_application_json, JsonDumps(BodyStatus), TRUE, BodyStatus),
      Response(t_json_charset, JsonDumps(BodyA), TRUE, BodyA),
      Response(t_application_json, JsonDumps(JInt(1)), TRUE, JInt(1)),
      Response(t_application_json, <<"{","\"","s","t","a","t","u","s","\"",":">>, FALSE, JNull),
      Response(t_text_plain, JsonDumps(BodyStatus), TRUE, BodyStatus),
      Response(<<>>, <<"h","e","l","l","o">>, FALSE, JNull) }

\* ProxyHandler.process_response(response, language)
ProcessResponseCall ==
    \E response \in Responses, language \in {NoLanguage, t_en, t_EN, t_de} :
    \E fetch \in FetchesOf(StoreContents[store],
                           ProcessResponse(cache, lastLoaded, StoreContents[store],
                                           AllRead(StoreContents[store]), now,
                                           response, language).get.fetched) :
        \E r \in {ProcessResponse(cache, lastLoaded, StoreContents[store], fetch, now,
                                 response, language)} :
            /\ cache' = r.get.cache
            /\ lastLoaded' = r.get.lastLoaded
            /\ last' = IF r.consulted
                       THEN Called("get", language, fetch.ok, r.get, r.get.rules, <<>>, "", 0)
                       ELSE NoCall
            /\ px' = [value |-> r.value,
                      rules |-> r.get.rules,
                      language |-> language,
                      status |-> r.status,
                      kind |-> r.kind,
                      response |-> response,
                      text |-> r.text,
                      consulted |-> r.consulted,
                      translated |-> r.translated,
                      op |-> "process_response",
                      cacheBefore |-> cache]
            /\ UNCHANGED <<store, now, ticks, tr>>

\* await ProxyHandler.make_request(...)
MakeRequestCall ==
    \E method \in {"GET", "POST"}, url \in {t_u, t_u_q},
       headers \in {JNull, JDict(<<Entry(t_Authorization, JStr(t_tok))>>)},
       params \in {JNull, JDict(<<Entry(t_a, JInt(1))>>)},
       payload \in {JNull, JDict(<<Entry(t_schema, JStr(t_s1))>>)},
       upstream \in Upstreams :
        \E r \in {MakeRequest(method, url, headers, JNull, params, payload, FALSE, upstream)} :
            /\ px' = [status |-> r.status,
                      headers |-> headers,
                      url |-> url,
                      params |-> params,
                      payload |-> payload,
                      method |-> method,
                      upstream |-> IF r.dispatched = 0 THEN "" ELSE upstream.kind,
                      kwargs |-> r.kwargs,
                      ended |-> r.ended,
                      exception |-> r.exception,
                      dispatched |-> r.dispatched,
                      op |-> "make_request"]
            /\ last' = NoCall
            /\ UNCHANGED <<store, now, ticks, cache, lastLoaded, tr>>

\* POST /proxy
ProxyRequestCall ==
    \E method \in {"GET", "POST"},
       payload \in {JNull,
                    JDict(<<Entry(t_schema, JStr(t_s1)), Entry(LanguageKeys[1], JStr(t_EN))>>),
                    JDict(<<Entry(LanguageKeys[2], JStr(t_en_sp))>>)},
       upstream \in Upstreams :
        \E r \in {ProxyRequest(method, payload, upstream)} :
            /\ px' = [language |-> r.language,
                      status |-> r.status,
                      payload |-> payload,
                      method |-> method,
                      upstream |-> IF r.dispatched = 0 THEN "" ELSE upstream.kind,
                      ended |-> r.ended,
                      exception |-> r.exception,
                      dispatched |-> r.dispatched,
                      cleaned |-> r.payload,
                      op |-> "proxy_request"]
            /\ last' = NoCall
            /\ UNCHANGED <<store, now, ticks, cache, lastLoaded, tr>>

t_FR_sp == <<"F","R"," ">>
t_es == <<"e","s">>

\* the query parameters a language is extracted from: None, a list, and maps
\* whose language keys hold text, numbers and null
LanguageParams ==
    {JNull,
     JList(<<JStr(t_fr)>>),
     JDict(<<Entry(LanguageKeys[2], JStr(t_FR_sp))>>),
     JDict(<<Entry(LanguageKeys[1], JInt(5)), Entry(LanguageKeys[2], JStr(t_fr))>>),
     JDict(<<Entry(LanguageKeys[1], JInt(0)), Entry(LanguageKeys[3], JStr(t_de))>>),
     JDict(<<Entry(LanguageKeys[1], JNull), Entry(LanguageKeys[4], JStr(t_EN))>>),
     JDict(<<Entry(t_a, JInt(1))>>)}

\* the bodies a language is extracted from
LanguagePayloads ==
    {JNull,
     JStr(t_en),
     JDict(<<Entry(LanguageKeys[1], JStr(t_es))>>),
     JDict(<<Entry(LanguageKeys[3], JBool(TRUE)), Entry(LanguageKeys[4], JStr(t_en_sp))>>),
     JDict(<<Entry(t_b, JInt(2))>>)}

\* ProxyHandler.extract_language(params, payload)
ExtractLanguageCall ==
    \E params \in LanguageParams, payload \in LanguagePayloads :
        \E r \in {ExtractLanguage(params, payload)} :
            /\ px' = [language |-> r,
                      params |-> params,
                      payload |-> payload,
                      op |-> "extract_language"]
            /\ last' = NoCall
            /\ UNCHANGED <<store, now, ticks, cache, lastLoaded, tr>>

t_s2 == <<"s","2">>
t_x_amp_y == <<"x","&","y">>

\* the query parameters a URL is built with: None, the empty map, maps with
\* and without a schema, and a map holding text with "&"
UrlParams ==
    {JNull,
     JDict(EmptyMap),
     JDict(<<Entry(t_a, JInt(1))>>),
     JDict(<<Entry(t_schema, JStr(t_s2)), Entry(t_a, JInt(1))>>),
     JDict(<<Entry(t_a, JStr(t_x_amp_y))>>)}

\* the bodies a URL is built with
UrlPayloads ==
    {JNull,
     JDict(<<Entry(t_schema, JStr(t_s1))>>),
     JDict(<<Entry(t_b, JInt(2))>>)}

\* ProxyHandler.build_url_with_params(url, params, payload)
BuildUrlCall ==
    \E url \in {t_u, t_u_q}, params \in UrlParams, payload \in UrlPayloads :
        \E r \in {BuildUrlWithParams(url, params, payload)} :
            /\ px' = [result |-> r,
                      url |-> url,
                      params |-> params,
                      payload |-> payload,
                      op |-> "build_url"]
            /\ last' = NoCall
            /\ UNCHANGED <<store, now, ticks, cache, lastLoaded, tr>>

t_accept == <<"a","c","c","e","p","t">>

\* the headers a token is injected into: None, headers with an Authorization
\* entry, headers without one
AuthHeaders ==
    {JNull,
     JDict(<<Entry(t_Authorization, JStr(t_tok))>>),
     JDict(<<Entry(t_accept, JStr(t_application_json))>>)}

\* ProxyHandler.inject_auth_token(headers): result is the value returned,
\* when the call returns
InjectAuthTokenCall ==
    \E headers \in AuthHeaders :
        \E r \in {InjectAuthToken(headers)} :
            /\ px' = [result |-> IF r.raised THEN JNull ELSE r.headers,
                      raised |-> r.raised,
                      headers |-> headers,
                      op |-> "inject_auth_token"]
            /\ last' = NoCall
            /\ UNCHANGED <<store, now, ticks, cache, lastLoaded, tr>>

\* responses are processed while the cache is reloaded, time passes and the
\* collection changes
NextProxy ==
    \/ Tick
    \/ StoreChange
    \/ ReloadRequest
    \/ ProcessResponseCall

SpecProxy == Init /\ [][NextProxy]_vars

\* requests are forwarded
NextForward ==
    \/ MakeRequestCall
    \/ ProxyRequestCall
    \/ ExtractLanguageCall
    \/ BuildUrlCall
    \/ InjectAuthTokenCall

SpecForward == Init /\ [][NextForward]_vars

----------------------------------------------------------------------------
(* The rewrite engine called on its own                                    *)

\* JSONTranslator(rules).translate(data)
TranslateCall ==
    \E rules \in RuleLists, data \in Values :
        \E t \in {Translate(rules, data)} :
            /\ ~tr.called
            /\ tr' = [rules |-> rules,
                      data |-> data,
                      aliased |-> t.aliased,
                      result |-> t.result,
                      called |-> TRUE,
                      after |-> t.data,
                      rulesAfter |-> t.rules]
            /\ UNCHANGED <<store, now, ticks, cache, lastLoaded, last, px>>

NextEngine == TranslateCall

\* the engine does not touch the rule cache: one collection is enough
InitEngine == Init /\ store = 1

SpecEngine == InitEngine /\ [][NextEngine]_vars

----------------------------------------------------------------------------
(* Properties of the rule cache                                            *)

RefreshFailed == last.fetched = 1 /\ ~last.fetchOk

\* C1: a refresh attempt that fails leaves the snapshot (the mapping and the
\* load time) as it was before the attempt, and a get(code) whose refresh
\* failed neither raises nor returns anything but the rule set the previous
\* snapshot held for a code present in it.
C1_FailedRefreshKeepsSnapshot ==
    (last.op \in {"get", "list", "reload"} /\ RefreshFailed) =>
        /\ cache = last.before
        /\ lastLoaded = last.lastBefore
        /\ (last.op = "get" =>
              /\ ~last.raised
              /\ MapHas(last.before, last.arg) =>
                    last.rules = MapGet(last.before, last.arg, EmptyMap))

\* a get() of a cached language past the TTL, whose refresh failed, still
\* answered with the cached rules
C1_Witness ==
    /\ last.op = "get"
    /\ RefreshFailed
    /\ last.before # EmptyMap
    /\ last.at - last.lastBefore > cache_ttl_seconds
    /\ MapHas(last.before, last.arg)
    /\ last.rules # EmptyMap

\* C2: a fetch failure during reload() is reported to the caller as an
\* error, so the reload endpoint answers status "error", and the previous
\* snapshot is kept.
C2_ReloadFailureSurfaced ==
    (last.op = "reload" /\ RefreshFailed) =>
        /\ last.status = "error"
        /\ cache = last.before

\* C3: get() and listLanguages() attempt a fetch exactly when no refresh has
\* ever succeeded or the age exceeds the TTL, at most once per call, and a
\* failed attempt leaves lastLoadedAt unchanged.
C3_FetchIffStaleOrNeverLoaded ==
    last.op \in {"get", "list"} =>
        /\ last.fetched \in {0, 1}
        /\ last.fetched = 1 <=>
              \/ last.lastBefore = DatetimeMin
              \/ last.at - last.lastBefore > cache_ttl_seconds
        /\ RefreshFailed => lastLoaded = last.lastBefore

\* C4: get(s) returns the rule set stored for every code c whose normalized
\* form equals that of s, and listLanguages() returns normalized codes only.
C4_LookupNormalized ==
    /\ (last.op = "get" /\ ~last.raised) =>
          \A i \in 1..Len(cache) :
              Normalize(cache[i].k) = Normalize(last.arg) => last.rules = cache[i].v
    /\ (last.op = "list" /\ ~last.raised) =>
          \A i \in 1..Len(last.languages) :
              last.languages[i] = Normalize(last.languages[i])

\* the documents of the collection a call fetched from
DocsAt(call) == StoreContents[call.storeAt]

\* the mapping a complete fetch of docs amounts to: the codes are the
\* non-empty languageIds, each with the translations of its last document
IsFetchedMapping(m, docs) ==
    /\ KeySet(m) = {docs[i].languageId : i \in {j \in 1..Len(docs) : docs[j].languageId # <<>>}}
    /\ Cardinality(KeySet(m)) = Len(m)
    /\ \A i \in 1..Len(docs) :
          (/\ docs[i].languageId # <<>>
           /\ \A j \in (i + 1)..Len(docs) : docs[j].languageId # docs[i].languageId)
          => MapGet(m, docs[i].languageId, EmptyMap) = docs[i].translations

\* C5: the snapshot requests read is at every moment either the initial empty
\* one or the complete result of one successful fetch of the collection (as
\* it was at some time), never a mix and never a changed one.
C5_SnapshotIsOneFetch ==
    \/ cache = EmptyMap
    \/ \E i \in StoreIds : IsFetchedMapping(cache, StoreContents[i])

\* C6: reload() fetches once whatever the age; after a successful fetch the
\* snapshot is the fetched mapping, lastLoadedAt is the time of the reload
\* and the report gives the snapshot's size and codes; after a failed fetch
\* the reported count is the size of the previous snapshot.
C6_ReloadAlwaysFetches ==
    last.op = "reload" =>
        /\ last.fetched = 1
        /\ last.fetchOk =>
              /\ IsFetchedMapping(cache, DocsAt(last))
              /\ lastLoaded = last.at
              /\ last.count = Len(cache)
              /\ last.languages = MapKeys(cache)
        /\ ~last.fetchOk => last.count = Len(last.before)

\* a reload within the TTL of the previous load that replaced a non-empty
\* snapshot by a different one
C6_Witness ==
    /\ last.op = "reload"
    /\ last.fetchOk
    /\ last.before # EmptyMap
    /\ last.lastBefore # DatetimeMin
    /\ last.at - last.lastBefore <= cache_ttl_seconds
    /\ cache # last.before
    /\ last.count = 2

----------------------------------------------------------------------------
(* Properties of the rewrite engine                                        *)

IsContainer(x) == IsDict(x) \/ IsList(x)

\* the content of a fresh copy of data once the rules have been applied to
\* it one after the other
Rewritten(rules, data) ==
    LET start == DataStored(rules, data)
        copy == DeepCopy(start.h, start.slot)
    IN  Load(ApplyRules(copy.h, RuleSlots(rules), copy.slot), copy.slot)

\* what a replacement makes of a value: the mapping's entry for its text, else
\* the mapping's "*" entry, else the value itself; a literal replaces it
Replacement(original, replace) ==
    IF IsDict(replace)
    THEN MapGet(replace.d, PyStr(original), MapGet(replace.d, Star, original))
    ELSE replace

\* C9: translate never changes the caller's value; with no rules or a scalar
\* value it returns the caller's value itself, otherwise a separate copy to
\* which the rules were applied in the given order.
C9_TranslateLeavesInputAlone ==
    tr.called =>
        /\ tr.after = tr.data
        /\ (tr.rules = <<>> \/ ~IsContainer(tr.data)) =>
              (tr.aliased /\ tr.result = tr.data)
        /\ (tr.rules # <<>> /\ IsContainer(tr.data)) =>
              (~tr.aliased /\ tr.result = Rewritten(tr.rules, tr.data))

\* two rules rewrote a map: the result differs from the input, the result of
\* the rules in the other order differs too, and the input is as it was
C9_Witness ==
    /\ tr.called
    /\ Len(tr.rules) = 2
    /\ IsDict(tr.data)
    /\ tr.result # tr.data
    /\ tr.result # Rewritten(<<tr.rules[2], tr.rules[1]>>, tr.data)
    /\ tr.after = tr.data
    /\ ~tr.aliased

\* C10: a rule whose last segment is "*" and reaches a list there (key.* on
\* {key: [..]}) replaces every element of the list as the replacement says.
C10_ListWildcardTerminal ==
    (/\ tr.called
     /\ Len(tr.rules) = 1
     /\ IsDict(tr.data)
     /\ Len(Split(tr.rules[1].path, ".")) = 2
     /\ Split(tr.rules[1].path, ".")[2] = Star
     /\ MapHas(tr.data.d, Split(tr.rules[1].path, ".")[1])
     /\ IsList(MapGet(tr.data.d, Split(tr.rules[1].path, ".")[1], JNull)))
    => LET key == Split(tr.rules[1].path, ".")[1]
           before == MapGet(tr.data.d, key, JNull)
           after == MapGet(tr.result.d, key, JNull)
       IN  after = JList([i \in 1..Len(before.l) |->
                            Replacement(before.l[i], tr.rules[1].replace)])

----------------------------------------------------------------------------
(* Properties of the forwarding pipeline                                   *)

\* C7: a forwarded request ends with the upstream's response, or with the
\* upstream's own error status, or with 504 when the dispatch timed out, or
\* with 502 when the upstream could not be reached, and the upstream is
\* dispatched to at most once.
C7_ForwardOutcomes ==
    px.op \in {"make_request", "proxy_request"} =>
        /\ px.dispatched <= 1
        /\ \/ px.ended = "response" /\ px.upstream = "response"
           \/ px.ended = "http" /\ px.upstream = "response" /\ px.status >= 400
           \/ px.ended = "http" /\ px.upstream = "timeout" /\ px.status = 504
           \/ px.ended = "http" /\ px.upstream = "connect" /\ px.status = 502

\* C8: process_response returns the raw text, consulting neither the cache
\* nor the engine, when the content type is not JSON; fails with 500 when a
\* JSON body does not parse; otherwise returns the parsed value, rewritten by
\* the engine exactly when a language is given and the cache has a non-empty
\* rule set for it, and unchanged otherwise.
C8_ProcessResponse ==
    px.op = "process_response" =>
        LET json == IsSubstring(t_application_json, px.response.content_type)
        IN  /\ ~json =>
                  /\ px.kind = "text" /\ px.text = px.response.text
                  /\ ~px.consulted /\ ~px.translated
                  /\ cache = px.cacheBefore
            /\ (json /\ ~px.response.valid) =>
                  /\ px.kind = "error" /\ px.status = 500
                  /\ ~px.translated
            /\ (json /\ px.response.valid) =>
                  /\ px.kind = "json"
                  /\ px.translated <=> (px.language # NoLanguage /\ px.rules # EmptyMap)
                  /\ px.translated =>
                        px.value = Rewritten(RulesOf(px.rules), px.response.value)
                  /\ ~px.translated => px.value = px.response.value

\* a JSON body rewritten with the rules of the language asked for
C8_Witness ==
    /\ px.op = "process_response"
    /\ px.translated
    /\ px.language # NoLanguage
    /\ px.rules # EmptyMap
    /\ px.value # px.response.value

\* a JSON body handed back as parsed because the cache holds nothing for the
\* language
C8_WitnessNoRules ==
    /\ px.op = "process_response"
    /\ px.consulted
    /\ ~px.translated
    /\ px.kind = "json"
    /\ px.value = px.response.value

----------------------------------------------------------------------------
(* Properties of the rewrite engine: traversal and replacement             *)

\* what a rule with key segments only makes of a value: a list hands the
\* whole path on to each element, a map follows the first key if it has it
\* (replacing the value there when the path ends), a scalar stays
RECURSIVE AlongKeys(_, _, _)
AlongKeys(node, segments, replace) ==
    IF IsList(node)
    THEN JList([i \in 1..Len(node.l) |-> AlongKeys(node.l[i], segments, replace)])
    ELSE IF IsDict(node)
    THEN JDict([i \in 1..Len(node.d) |->
                  IF node.d[i].k # Head(segments) THEN node.d[i]
                  ELSE IF Len(segments) = 1
                  THEN Entry(node.d[i].k, Replacement(node.d[i].v, replace))
                  ELSE Entry(node.d[i].k, AlongKeys(node.d[i].v, Tail(segments), replace))])
    ELSE node

OneRule == tr.called /\ Len(tr.rules) = 1 /\ tr.rules[1].path # <<>>

\* C11: a list met with a key segment hands the rule with all its segments
\* to every element, at any depth; scalar elements and maps without the key
\* stay as they are.
C11_ListsTransparentToKeys ==
    (/\ OneRule
     /\ IsContainer(tr.data)
     /\ \A i \in 1..Len(Split(tr.rules[1].path, ".")) :
           Split(tr.rules[1].path, ".")[i] # Star)
    => tr.result = AlongKeys(tr.data, Split(tr.rules[1].path, "."), tr.rules[1].replace)

\* "items.name" on a list of a list of maps and a scalar: the name inside the
\* inner list is replaced, the scalar stays
C11_Witness ==
    /\ OneRule
    /\ tr.rules[1].path = p_items_name
    /\ IsDict(tr.data)
    /\ MapHas(tr.data.d, t_items)
    /\ IsList(MapGet(tr.data.d, t_items, JNull))
    /\ Len(MapGet(tr.data.d, t_items, JNull).l) = 2
    /\ IsList(MapGet(tr.data.d, t_items, JNull).l[1])
    /\ MapGet(tr.result.d, t_items, JNull).l[1] =
          JList(<<JDict(<<Entry(t_name, tr.rules[1].replace)>>)>>)
    /\ MapGet(tr.result.d, t_items, JNull).l[2] = MapGet(tr.data.d, t_items, JNull).l[2]

\* C12: a rule of one segment on a map replaces the value at the key named
\* (at every key for "*") by the mapping's entry for str(value), else its "*"
\* entry, else the value itself, or by the literal; other keys keep their
\* values, an absent key changes nothing and the keys stay the same.
C12_TerminalReplacement ==
    (/\ OneRule
     /\ IsDict(tr.data)
     /\ Len(Split(tr.rules[1].path, ".")) = 1)
    => /\ IsDict(tr.result)
       /\ MapKeys(tr.result.d) = MapKeys(tr.data.d)
       /\ \A i \in 1..Len(tr.data.d) :
             tr.result.d[i].v =
                IF tr.rules[1].path \in {Star, tr.data.d[i].k}
                THEN Replacement(tr.data.d[i].v, tr.rules[1].replace)
                ELSE tr.data.d[i].v

\* a mapping without an entry for the value but with a "*" entry put its "*"
\* entry at the key, and the other keys kept their values
C12_Witness ==
    /\ OneRule
    /\ IsDict(tr.data)
    /\ tr.rules[1].path = t_status
    /\ MapHas(tr.data.d, t_status)
    /\ IsDict(tr.rules[1].replace)
    /\ ~MapHas(tr.rules[1].replace.d, PyStr(MapGet(tr.data.d, t_status, JNull)))
    /\ MapHas(tr.rules[1].replace.d, Star)
    /\ MapGet(tr.result.d, t_status, JNull) = MapGet(tr.rules[1].replace.d, Star, JNull)
    /\ MapGet(tr.result.d, t_status, JNull) # MapGet(tr.data.d, t_status, JNull)

-----------------------------------------------------------------------------
(* Properties of the forwarding pipeline: language, URL and auth token     *)

\* the first of the language keys of a source whose value is text, lowercased
\* and trimmed; a source that is not a map has none
RECURSIVE FirstStringUnder(_, _)
FirstStringUnder(m, keys) ==
    IF keys = <<>>
    THEN [language |-> <<>>, found |-> FALSE]
    ELSE IF MapGet(m, Head(keys), JNull).t = "str"
    THEN [language |-> Normalize(MapGet(m, Head(keys), JNull).s), found |-> TRUE]
    ELSE FirstStringUnder(m, Tail(keys))

Resolved(params, payload) ==
    LET in(source) == IF IsDict(source)
                      THEN FirstStringUnder(source.d, LanguageKeys)
                      ELSE [language |-> <<>>, found |-> FALSE]
    IN  IF in(params).found THEN in(params) ELSE in(payload)

\* C13: the language extracted is the lowercased, trimmed first text value
\* under language, lang, locale, languageId, of the query parameters first
\* and of the body next; a value that is not text does not end the search of
\* the later keys of its source; there is no language only when neither
\* source holds such a text.
C13_FirstStringValueWins ==
    /\ px.op = "extract_language" => px.language = Resolved(px.params, px.payload)
    /\ px.op = "proxy_request" => px.language = Resolved(JNull, px.cleaned)

\* text cut at every c
RECURSIVE SplitAt(_, _)
SplitAt(s, c) ==
    IF \E i \in 1..Len(s) : s[i] = c
    THEN LET i == CHOOSE i \in 1..Len(s) : s[i] = c /\ \A j \in 1..(i - 1) : s[j] # c
         IN  <<SubSeq(s, 1, i - 1)>> \o SplitAt(SubSeq(s, i + 1, Len(s)), c)
    ELSE <<s>>

\* a query value as its receiver decodes it, for text without % escapes
QueryDecode(s) == [i \in 1..Len(s) |-> IF s[i] = "+" THEN " " ELSE s[i]]

\* the fields a receiver reads from a query string: cut at "&", each field
\* cut at its first "=", the value decoded
QueryFields(query) ==
    LET field(text) ==
            LET cut == SplitAt(text, "=")
            IN  [value |-> QueryDecode(SubSeq(text, Len(cut[1]) + 2, Len(text))),
                 name |-> cut[1]]
        texts == SplitAt(query, "&")
    IN  [i \in 1..Len(texts) |-> field(texts[i])]

\* C14: the URL built is the given URL followed by a schema field, when the
\* query parameters or else the body hold a schema, and by a params field
\* whose single value is the compact JSON text of the whole parameter map,
\* when there are query parameters; the first added field is joined with "&"
\* when the URL already has a query string and with "?" otherwise; the URL
\* is returned unchanged when neither applies.
C14_UrlAugmentation ==
    px.op = "build_url" =>
        LET schema ==
                IF IsDict(px.params) /\ MapHas(px.params.d, t_schema)
                THEN MapGet(px.params.d, t_schema, JNull)
                ELSE IF IsDict(px.payload) /\ MapHas(px.payload.d, t_schema)
                THEN MapGet(px.payload.d, t_schema, JNull)
                ELSE JNull
            expected ==
                (IF schema # JNull
                 THEN <<[value |-> PyStr(schema), name |-> t_schema]>>
                 ELSE <<>>)
                \o (IF IsDict(px.params) /\ px.params.d # EmptyMap
                    THEN <<[value |-> JsonDumps(px.params),
                            name |-> <<"p","a","r","a","m","s">>]>>
                    ELSE <<>>)
            separator == IF IsSubstring(<<"?">>, px.url) THEN "&" ELSE "?"
            n == Len(px.url)
        IN  IF expected = <<>>
            THEN px.result = px.url
            ELSE /\ Len(px.result) > n + 1
                 /\ SubSeq(px.result, 1, n) = px.url
                 /\ px.result[n + 1] = separator
                 /\ QueryFields(SubSeq(px.result, n + 2, Len(px.result))) = expected

\* the token the service is configured with; none configured is the empty
\* token
ConfiguredToken ==
    IF "login_token" \in SettingsFields THEN LoginToken.value ELSE <<>>

\* C15: with a configured token that is not empty and no Authorization entry,
\* the headers returned are the given headers plus a login-token entry
\* holding the token; with an Authorization entry, or with an empty or
\* unconfigured token, the headers are returned unchanged; in both cases the
\* injection does not fail and a request is dispatched.
C15_AuthInjection ==
    /\ px.op = "inject_auth_token" =>
           LET given == IF px.headers = JNull THEN JDict(EmptyMap) ELSE px.headers
           IN  /\ ~px.raised
               /\ px.result =
                      IF ConfiguredToken # <<>> /\ ~MapHas(given.d, t_Authorization)
                      THEN JDict(MapSet(given.d, t_login_token, JStr(ConfiguredToken)))
                      ELSE given
    /\ px.op = "make_request" => px.dispatched = 1

----------------------------------------------------------------------------
(* Properties of the rule cache: the load time                             *)

\* C16: whenever the cache is not empty, the load time is the time of a
\* successful load and not datetime.min, so no call compares the clock with
\* datetime.min; the load time changes only in a call whose fetch succeeded,
\* to the time of that call, and never decreases.
C16_LoadTimeFollowsSuccess ==
    /\ [](/\ cache # EmptyMap => lastLoaded \in 0..now
          /\ ~last.raised)
    /\ [][lastLoaded' # lastLoaded =>
              /\ last'.fetchOk
              /\ lastLoaded' = last'.at
              /\ lastLoaded' > lastLoaded]_vars

\* a get() or listLanguages() on a non-empty cache that compared the clock
\* with the time of the previous load, found it stale, fetched with success
\* and advanced the load time
C16_Witness ==
    /\ last.op \in {"get", "list"}
    /\ last.before # EmptyMap
    /\ last.lastBefore # DatetimeMin
    /\ last.fetchOk
    /\ cache # EmptyMap
    /\ lastLoaded = last.at
    /\ lastLoaded > last.lastBefore


====
